---------------------------- MODULE Spec2Model ----------------------------
(***************************************************************************)
(* Poll loop of the desktop activity monitor (src/winloop.py) and the      *)
(* probes it drives (src/time32.py): idle time, foreground title, CPU and  *)
(* network sampling, and the enumeration of the visible top-level windows. *)
(*                                                                         *)
(* Strings are sequences of one-character strings.  Durations of the loop  *)
(* are counted in tenths of a second.  A 32-bit tick value is a record     *)
(* [hi, lo] of two 16-bit halves, value hi * 2^16 + lo: a Python integer   *)
(* that is negative or wider than 32 bits has a hi outside 0 .. 2^16 - 1.  *)
(* A float of seconds is a record [sec, ms], value sec + ms / 1000.        *)
(* An optional value is a sequence of length 0 (absent) or 1.              *)
(***************************************************************************)
EXTENDS Integers, Sequences, FiniteSets, TLC

\* ------------------------------------------------------------- bounds

\* Number of top-level windows the window manager enumerates.
NumWindows == 3

\* Number of Ctrl+C signals delivered during a run.
MaxInterrupts == 2

\* ------------------------------------------- program constants and inputs

\* POLL_SECONDS = 5, in tenths of a second.
POLL_SECONDS == 50

\* build_activity_snapshot's default cpu_seconds = 0.8, in tenths of a second.
cpu_seconds == 8

\* build_activity_snapshot's default net_seconds = 0.2, in tenths of a second.
net_seconds == 2

\* One half of a 32-bit word: the mask 0xFFFFFFFF keeps two of them.
Half == 65536

\* Time, in tenths of a second, one enumeration and rendering pass can take.
EnumCosts == {1, 45}

\* Readings psutil.cpu_percent can give.
CpuReadings == {0, 100}

\* Readings of one cumulative byte counter; a later reading is smaller
\* than an earlier one when the interface was reset in between.
NetCounters == {2, 5}

\* Window titles the window manager can report.
Titles == { <<>>, <<" ">>, <<"a">>, <<" ", "a">> }

\* Process ids owning windows.
Pids == {4, 8}

\* Image path the process-name query reports for a process.
ImagePath(pid) ==
    IF pid = 4 THEN <<"C", ":", "\\", "x">>
               ELSE <<"C", ":", "\\", "d", "\\", "y">>

\* Tick counter values GetTickCount and LASTINPUTINFO.dwTime can hold.
TickValues ==
    { [hi |-> 0, lo |-> 16], [hi |-> 0, lo |-> 1000], [hi |-> 0, lo |-> 1500],
      [hi |-> 32767, lo |-> 65535], [hi |-> 32768, lo |-> 0],
      [hi |-> 65535, lo |-> 65520] }

\* ------------------------------------------------------- pure helpers

Min(a, b) == IF a <= b THEN a ELSE b

Max(a, b) == IF a >= b THEN a ELSE b

\* ctypes.windll's default restype is c_int: GetTickCount's 32 bits are
\* handed to Python as a signed integer.
SignedRead(t) ==
    IF t.hi >= Half \div 2 THEN [hi |-> t.hi - Half, lo |-> t.lo] ELSE t

\* Python's integer subtraction a - b (unbounded).
IntSub(a, b) ==
    LET borrow == IF a.lo < b.lo THEN 1 ELSE 0
    IN  [hi |-> a.hi - b.hi - borrow, lo |-> a.lo - b.lo + borrow * Half]

\* x & 0xFFFFFFFF
Mask32NoMask(x) == x

Mask32(x) == [hi |-> x.hi % Half, lo |-> x.lo]

\* elapsed_ms / 1000.0
DivBy1000(x) ==
    LET rest == x.hi * (Half % 1000) + x.lo
    IN  [sec |-> x.hi * (Half \div 1000) + rest \div 1000, ms |-> rest % 1000]

\* elapsed_ms = (tick_now - lii.dwTime) & 0xFFFFFFFF
ElapsedMs(tick, dwTime) == Mask32(IntSub(SignedRead(tick), dwTime))

\* get_idle_seconds' result when GetLastInputInfo fails: -1.0
IdleFailureZero == [sec |-> 0, ms |-> 0]

IdleFailure == [sec |-> 0 - 1, ms |-> 0]

\* GetWindowTextW(hwnd, buf, nMaxCount) followed by buf.value: at most
\* nMaxCount - 1 characters of the title the window has at the time of the copy.
GetWindowTextWNoLimit(title, nMaxCount) == title

GetWindowTextW(title, nMaxCount) ==
    SubSeq(title, 1, Min(Len(title), nMaxCount - 1))

\* str.strip()
RECURSIVE lstrip(_)
lstrip(s) ==
    IF s = <<>> THEN <<>>
    ELSE IF Head(s) = " " THEN lstrip(Tail(s)) ELSE s

RECURSIVE rstrip(_)
rstrip(s) ==
    IF s = <<>> THEN <<>>
    ELSE IF s[Len(s)] = " " THEN rstrip(SubSeq(s, 1, Len(s) - 1)) ELSE s

strip(s) == rstrip(lstrip(s))

\* the callback's filter: if title.strip():
TitlePassesNoStrip(title) == title # <<>>

TitlePasses(title) == strip(title) # <<>>

\* path.split("\\")[-1]
LastComponent(path) ==
    IF \E i \in 1..Len(path) : path[i] = "\\"
    THEN LET k == CHOOSE i \in 1..Len(path) :
                    /\ path[i] = "\\"
                    /\ \A j \in (i+1)..Len(path) : path[j] # "\\"
         IN  SubSeq(path, k + 1, Len(path))
    ELSE path

\* up = (c1.bytes_sent - c0.bytes_sent) / sample_seconds
Rate(c0, c1, sample_seconds) == ((c1 - c0) * 10) \div sample_seconds

\* the callback's windows.append((hwnd, title, pid, pname))
AppendRecordSkipUnnamed(ws, rec) == IF rec.pname = <<>> THEN ws ELSE Append(ws, rec)

AppendRecord(ws, rec) == Append(ws, rec)

\* ---------------------------------------------------------------- state

VARIABLES
    pc,              \* position of the single thread of control
    loopState,       \* "RUNNING", "STOPPED" (Ctrl+C caught by main) or
                     \* "CRASHED" (an exception main does not catch)
    failure,         \* <<probe>> once a probe's underlying query has raised
    elapsed,         \* time consumed since the start of the current tick
    sleeping,        \* <<d>> while the loop is inside time.sleep(d) between ticks
    interrupts,      \* Ctrl+C signals delivered so far
    cpu, c0, rates,  \* build_activity_snapshot's locals
    lii,             \* <<dwTime>> when this tick's GetLastInputInfo succeeded
    tick_now,        \* <<GetTickCount()>> when this tick read the tick counter
    elapsed_ms,      \* get_idle_seconds' masked difference
    idle,            \* get_idle_seconds' result
    snapshot,        \* the dict build_activity_snapshot returns
    hwnd,            \* window whose title is being read (0: none)
    length,          \* GetWindowTextLengthW's answer
    osTitle,         \* the title that window currently has
    titleChanged,    \* its owner changed it between the length query and the copy
    title,           \* buf.value
    apiPresent,      \* QueryFullProcessImageNameW was found at import time
    openHandles,     \* process handles opened and not yet closed
    windows,         \* list_visible_windows' result list
    enumIdx,         \* windows EnumWindows has already handed to the callback
    visible, pid, hProcess, pname,   \* the callback's and get_process_name's locals
    resolution,      \* how name resolution went for the current window
    passInterrupted, \* a Ctrl+C was raised inside the callback in this pass
    passUnstable,    \* a title changed under its retrieval in this pass
    qualCount,       \* visible windows with a non-blank title met in this pass
    failCount        \* of these, the ones whose name resolution failed

loopVars == <<loopState, failure, elapsed, sleeping, interrupts>>

snapVars == <<cpu, c0, rates, lii, tick_now, elapsed_ms, idle, snapshot>>

titleVars == <<hwnd, length, osTitle, titleChanged, title>>

osVars == <<apiPresent, openHandles>>

enumVars == <<windows, enumIdx>>

cbVars == <<visible, pid, hProcess, pname, resolution>>

ghostVars == <<passInterrupted, passUnstable, qualCount, failCount>>

vars == <<pc, loopVars, snapVars, titleVars, osVars, enumVars, cbVars, ghostVars>>

ClearSnap ==
    /\ cpu' = <<>> /\ c0' = <<>> /\ rates' = <<>>
    /\ lii' = <<>> /\ tick_now' = <<>> /\ elapsed_ms' = <<>>
    /\ idle' = <<>> /\ snapshot' = <<>>

ClearTitle ==
    /\ hwnd' = 0 /\ length' = 0 /\ osTitle' = <<>>
    /\ titleChanged' = FALSE /\ title' = <<>>

ClearCb ==
    /\ visible' = FALSE /\ pid' = 0 /\ hProcess' = 0
    /\ pname' = <<>> /\ resolution' = "none"

ClearGhost ==
    /\ passInterrupted' = FALSE /\ passUnstable' = FALSE
    /\ qualCount' = 0 /\ failCount' = 0

Init ==
    /\ pc = "tick_start"
    /\ loopState = "RUNNING"
    /\ failure = <<>>
    /\ elapsed = 0
    /\ sleeping = <<>>
    /\ interrupts = 0
    /\ cpu = <<>> /\ c0 = <<>> /\ rates = <<>>
    /\ lii = <<>> /\ tick_now = <<>> /\ elapsed_ms = <<>>
    /\ idle = <<>> /\ snapshot = <<>>
    /\ hwnd = 0 /\ length = 0 /\ osTitle = <<>>
    /\ titleChanged = FALSE /\ title = <<>>
    /\ apiPresent \in BOOLEAN
    /\ openHandles = 0
    /\ windows = <<>> /\ enumIdx = 0
    /\ visible = FALSE /\ pid = 0 /\ hProcess = 0
    /\ pname = <<>> /\ resolution = "none"
    /\ passInterrupted = FALSE /\ passUnstable = FALSE
    /\ qualCount = 0 /\ failCount = 0

\* ------------------------------------------------- how a run can end

\* An exception reaches main's frame and main's except clause does not
\* name it: the interpreter prints the traceback and the process ends.
Unhandled(exc) ==
    /\ loopState' = "CRASHED"
    /\ failure' = <<exc>>
    /\ pc' = "done"
    /\ ClearSnap /\ ClearTitle /\ ClearCb /\ ClearGhost
    /\ windows' = <<>> /\ enumIdx' = 0
    /\ elapsed' = 0 /\ sleeping' = <<>>
    /\ UNCHANGED <<interrupts, osVars>>

\* except KeyboardInterrupt: print("\nExiting on Ctrl+C.")
CaughtByMain ==
    /\ loopState' = "STOPPED"
    /\ pc' = "done"
    /\ ClearSnap /\ ClearTitle /\ ClearCb /\ ClearGhost
    /\ windows' = <<>> /\ enumIdx' = 0
    /\ elapsed' = 0 /\ sleeping' = <<>>
    /\ UNCHANGED <<failure, apiPresent>>

\* ------------------------------------------------ the tick: the snapshot

\* while True: the header lines, then print_activity_snapshot() with no
\* snapshot given, which calls build_activity_snapshot().
TickStart ==
    /\ pc = "tick_start"
    /\ pc' = "cpu_base"
    /\ UNCHANGED <<loopVars, snapVars, titleVars, osVars, enumVars, cbVars, ghostVars>>

\* get_cpu_percent: psutil.cpu_percent(None) as the baseline, then
\* time.sleep(sample_seconds).
CpuBaseline ==
    /\ pc = "cpu_base"
    /\ pc' = "cpu_sample"
    /\ elapsed' = elapsed + cpu_seconds
    /\ UNCHANGED <<loopState, failure, sleeping, interrupts, snapVars, titleVars,
                   osVars, enumVars, cbVars, ghostVars>>

\* The baseline query raises: nothing between it and main catches.
CpuBaselineFails ==
    /\ pc = "cpu_base"
    /\ Unhandled("cpu_percent")

\* return psutil.cpu_percent(None)
CpuSample ==
    /\ pc = "cpu_sample"
    /\ \E r \in CpuReadings : cpu' = <<r>>
    /\ pc' = "net_c0"
    /\ UNCHANGED <<loopVars, c0, rates, lii, tick_now, elapsed_ms, idle, snapshot, titleVars,
                   osVars, enumVars, cbVars, ghostVars>>

\* get_net_rates: c0 = psutil.net_io_counters(); time.sleep(sample_seconds)
NetFirst ==
    /\ pc = "net_c0"
    /\ \E s \in NetCounters, r \in NetCounters :
           c0' = <<[bytes_sent |-> s, bytes_recv |-> r]>>
    /\ elapsed' = elapsed + net_seconds
    /\ pc' = "net_c1"
    /\ UNCHANGED <<loopState, failure, sleeping, interrupts, cpu, rates, lii,
                   tick_now, elapsed_ms, idle, snapshot, titleVars, osVars, enumVars, cbVars,
                   ghostVars>>

\* c1 = psutil.net_io_counters(); up, down = the two deltas / sample_seconds;
\* return up, down drops c0 and c1.
NetSecond ==
    /\ pc = "net_c1"
    /\ \E s \in NetCounters, r \in NetCounters :
           rates' = <<[up   |-> Rate(c0[1].bytes_sent, s, net_seconds),
                       down |-> Rate(c0[1].bytes_recv, r, net_seconds)]>>
    /\ c0' = <<>>
    /\ pc' = "idle"
    /\ UNCHANGED <<loopVars, cpu, lii, tick_now, elapsed_ms, idle, snapshot, titleVars,
                   osVars, enumVars, cbVars, ghostVars>>

\* get_idle_seconds when GetLastInputInfo returns 0: return -1.0
IdleQueryFails ==
    /\ pc = "idle"
    /\ lii' = <<>>
    /\ tick_now' = <<>>
    /\ elapsed_ms' = <<>>
    /\ idle' = <<IdleFailure>>
    /\ pc' = "fg_hwnd"
    /\ UNCHANGED <<loopVars, cpu, c0, rates, snapshot, titleVars, osVars, enumVars,
                   cbVars, ghostVars>>

\* get_idle_seconds when GetLastInputInfo fills lii: read the tick counter,
\* subtract, mask, divide.
IdleQueryOk ==
    /\ pc = "idle"
    /\ \E last \in TickValues, now \in TickValues :
           /\ lii' = <<last>>
           /\ tick_now' = <<now>>
           /\ elapsed_ms' = <<ElapsedMs(now, last)>>
           /\ idle' = <<DivBy1000(ElapsedMs(now, last))>>
    /\ pc' = "fg_hwnd"
    /\ UNCHANGED <<loopVars, cpu, c0, rates, snapshot, titleVars, osVars, enumVars,
                   cbVars, ghostVars>>

\* get_foreground_title: hwnd = GetForegroundWindow(); if not hwnd: return ""
FgHwnd ==
    /\ pc = "fg_hwnd"
    /\ \E h \in 0..NumWindows :
           /\ hwnd' = h
           /\ pc' = IF h = 0 THEN "snap_build" ELSE "fg_len"
    /\ length' = 0 /\ osTitle' = <<>> /\ titleChanged' = FALSE /\ title' = <<>>
    /\ UNCHANGED <<loopVars, snapVars, osVars, enumVars, cbVars, ghostVars>>

\* length = GetWindowTextLengthW(hwnd); if length <= 0: return ""
FgLen ==
    /\ pc = "fg_len"
    /\ \E t \in Titles :
           /\ osTitle' = t
           /\ length' = Len(t)
           /\ pc' = IF Len(t) <= 0 THEN "snap_build" ELSE "fg_copy"
    /\ UNCHANGED <<loopVars, snapVars, hwnd, titleChanged, title, osVars, enumVars,
                   cbVars, ghostVars>>

\* buf = create_unicode_buffer(length + 1); GetWindowTextW(hwnd, buf, length + 1)
FgCopy ==
    /\ pc = "fg_copy"
    /\ title' = GetWindowTextW(osTitle, length + 1)
    /\ pc' = "snap_build"
    /\ UNCHANGED <<loopVars, snapVars, hwnd, length, osTitle, titleChanged, osVars,
                   enumVars, cbVars, ghostVars>>

\* The owning process sets a new title (longer, shorter or empty) after the
\* length query and before the copy, in get_foreground_title and in
\* get_window_title alike.  Only the title at the time of the copy is read,
\* so one change stands for any number of them.
TitleChange ==
    /\ pc \in {"fg_copy", "cb_copy"}
    /\ ~titleChanged
    /\ \E t \in Titles \ {osTitle} : osTitle' = t
    /\ titleChanged' = TRUE
    /\ UNCHANGED <<pc, loopVars, snapVars, hwnd, length, title, osVars, enumVars,
                   cbVars, ghostVars>>

\* title = get_foreground_title() or "(no title / none)"
Placeholder == <<"(", "n", "o", "n", "e", ")">>

\* build_activity_snapshot's return: the dict of the probes' values.
BuildDict(idleV, titleV, cpuV, ratesV) ==
    [ idle_seconds     |-> idleV,
      foreground_title |-> IF titleV = <<>> THEN Placeholder ELSE titleV,
      cpu_percent      |-> cpuV,
      net_up_bps       |-> ratesV.up,
      net_down_bps     |-> ratesV.down ]

SnapBuild ==
    /\ pc = "snap_build"
    /\ snapshot' = <<BuildDict(idle[1], title, cpu[1], rates[1])>>
    /\ pc' = "snap_print"
    /\ UNCHANGED <<loopVars, cpu, c0, rates, lii, tick_now, elapsed_ms, idle, titleVars, osVars,
                   enumVars, cbVars, ghostVars>>

\* print_activity_snapshot's print_table(rows); the dict is dropped on return.
SnapPrint ==
    /\ pc = "snap_print"
    /\ ClearSnap /\ ClearTitle
    /\ pc' = "wl_start"
    /\ UNCHANGED <<loopVars, osVars, enumVars, cbVars, ghostVars>>

\* ---------------------------------------- the tick: the window list

\* print_window_list: fg = GetForegroundWindow() (used only for the '*' of
\* the printed line); list_visible_windows() starts with windows = [] and
\* hands the callback to EnumWindows.
WlStart ==
    /\ pc = "wl_start"
    /\ windows' = <<>>
    /\ enumIdx' = 0
    /\ ClearGhost
    /\ pc' = "enum_next"
    /\ UNCHANGED <<loopVars, snapVars, titleVars, osVars, cbVars>>

\* EnumWindows hands the next top-level window to the callback, or
\* returns when there is none left.
EnumNext ==
    /\ pc = "enum_next"
    /\ IF enumIdx < NumWindows
       THEN /\ hwnd' = enumIdx + 1
            /\ pc' = "cb_visible"
       ELSE /\ hwnd' = 0
            /\ pc' = "enum_return"
    /\ UNCHANGED <<loopVars, snapVars, length, osTitle, titleChanged, title, osVars,
                   enumVars, cbVars, ghostVars>>

\* callback: if IsWindowVisible(hwnd):
CbVisible ==
    /\ pc = "cb_visible"
    /\ \E v \in BOOLEAN :
           /\ visible' = v
           /\ pc' = IF v THEN "cb_len" ELSE "cb_ret"
    /\ UNCHANGED <<loopVars, snapVars, titleVars, osVars, enumVars, pid, hProcess,
                   pname, resolution, ghostVars>>

\* get_window_title: length = GetWindowTextLengthW(hwnd); if length == 0: return ""
CbLen ==
    /\ pc = "cb_len"
    /\ \E t \in Titles :
           /\ osTitle' = t
           /\ length' = Len(t)
           /\ pc' = IF Len(t) = 0 THEN "cb_strip" ELSE "cb_copy"
    /\ UNCHANGED <<loopVars, snapVars, hwnd, titleChanged, title, osVars, enumVars,
                   cbVars, ghostVars>>

\* buf = create_unicode_buffer(length + 1); GetWindowTextW(hwnd, buf, length + 1)
CbCopy ==
    /\ pc = "cb_copy"
    /\ title' = GetWindowTextW(osTitle, length + 1)
    /\ pc' = "cb_strip"
    /\ UNCHANGED <<loopVars, snapVars, hwnd, length, osTitle, titleChanged, osVars,
                   enumVars, cbVars, ghostVars>>

\* if title.strip(): pid = get_window_pid(hwnd), then get_process_name(pid)
CbStrip ==
    /\ pc = "cb_strip"
    /\ IF TitlePasses(title)
       THEN /\ \E p \in Pids : pid' = p
            /\ pc' = "gpn_entry"
       ELSE /\ pid' = 0
            /\ pc' = "cb_ret"
    /\ UNCHANGED <<loopVars, snapVars, titleVars, osVars, enumVars, visible,
                   hProcess, pname, resolution, ghostVars>>

\* get_process_name: if not QueryFullProcessImageNameW: return ""
GpnNoApi ==
    /\ pc = "gpn_entry"
    /\ ~apiPresent
    /\ pname' = <<>>
    /\ resolution' = "absent"
    /\ pc' = "cb_append"
    /\ UNCHANGED <<loopVars, snapVars, titleVars, osVars, enumVars, visible, pid,
                   hProcess, ghostVars>>

\* hProcess = OpenProcess(...) gives no handle; if not hProcess: return ""
GpnOpenDenied ==
    /\ pc = "gpn_entry"
    /\ apiPresent
    /\ hProcess' = 0
    /\ pname' = <<>>
    /\ resolution' = "denied"
    /\ pc' = "cb_append"
    /\ UNCHANGED <<loopVars, snapVars, titleVars, osVars, enumVars, visible, pid,
                   ghostVars>>

\* hProcess = OpenProcess(...) gives a handle: the call has returned and
\* the try statement is not entered yet.
GpnOpen ==
    /\ pc = "gpn_entry"
    /\ apiPresent
    /\ hProcess' = 1
    /\ openHandles' = openHandles + 1
    /\ pc' = "gpn_opened"
    /\ UNCHANGED <<loopVars, snapVars, titleVars, apiPresent, enumVars, visible, pid,
                   pname, resolution, ghostVars>>

\* try: QueryFullProcessImageNameW(hProcess, 0, buf, byref(size)) succeeds:
\* the return value path.split("\\")[-1] is set, the finally clause is next.
GpnQueryOk ==
    /\ pc = "gpn_opened"
    /\ pname' = LastComponent(ImagePath(pid))
    /\ resolution' = "ok"
    /\ pc' = "gpn_finally"
    /\ UNCHANGED <<loopVars, snapVars, titleVars, osVars, enumVars, visible, pid,
                   hProcess, ghostVars>>

\* try: the query returns 0: the return value is "", the finally clause is next.
GpnQueryFails ==
    /\ pc = "gpn_opened"
    /\ pname' = <<>>
    /\ resolution' = "queryfail"
    /\ pc' = "gpn_finally"
    /\ UNCHANGED <<loopVars, snapVars, titleVars, osVars, enumVars, visible, pid,
                   hProcess, ghostVars>>

\* finally: CloseHandle(hProcess)
GpnFinally ==
    /\ pc = "gpn_finally"
    /\ openHandles' = openHandles - 1
    /\ hProcess' = 0
    /\ pc' = "cb_append"
    /\ UNCHANGED <<loopVars, snapVars, titleVars, apiPresent, enumVars, visible, pid,
                   pname, resolution, ghostVars>>

\* windows.append((hwnd, title, pid, pname))
CbAppend ==
    /\ pc = "cb_append"
    /\ windows' = AppendRecord(windows,
                      [hwnd |-> hwnd, title |-> title, pid |-> pid, pname |-> pname])
    /\ pc' = "cb_ret"
    /\ UNCHANGED <<loopVars, snapVars, titleVars, osVars, enumIdx, cbVars, ghostVars>>

\* A title is non-blank when some character of it is not white space.
NonBlank(t) == \E i \in 1..Len(t) : t[i] # " "

\* The window the callback was just given is visible and has a non-blank title.
Qualifies == visible /\ NonBlank(osTitle)

\* return True: the callback's frame is dropped and EnumWindows goes on.
\* What the window manager said about this window is tallied for the pass.
CbReturn ==
    /\ pc = "cb_ret"
    /\ enumIdx' = enumIdx + 1
    /\ qualCount' = qualCount + (IF Qualifies THEN 1 ELSE 0)
    /\ failCount' = failCount +
           (IF Qualifies /\ resolution \in {"absent", "denied", "queryfail"}
            THEN 1 ELSE 0)
    /\ passUnstable' = (passUnstable \/ titleChanged)
    /\ ClearTitle /\ ClearCb
    /\ pc' = "enum_next"
    /\ UNCHANGED <<loopVars, snapVars, osVars, windows, passInterrupted>>

\* EnumWindows has returned: list_visible_windows returns windows, and
\* print_window_list sorts the list by title, prints it and drops it.
WlPrint ==
    /\ pc = "enum_return"
    /\ \E cost \in EnumCosts : elapsed' = elapsed + cost
    /\ windows' = <<>>
    /\ enumIdx' = 0
    /\ ClearGhost
    /\ pc' = "sleep"
    /\ UNCHANGED <<loopState, failure, sleeping, interrupts, snapVars, titleVars,
                   osVars, cbVars>>

\* time.sleep(POLL_SECONDS) is entered.
SleepBegin ==
    /\ pc = "sleep"
    /\ sleeping' = <<POLL_SECONDS>>
    /\ pc' = "sleeping"
    /\ UNCHANGED <<loopState, failure, elapsed, interrupts, snapVars, titleVars,
                   osVars, enumVars, cbVars, ghostVars>>

\* time.sleep returns after that long: the next iteration of while True.
SleepEnd ==
    /\ pc = "sleeping"
    /\ sleeping' = <<>>
    /\ elapsed' = 0
    /\ pc' = "tick_start"
    /\ UNCHANGED <<loopState, failure, interrupts, snapVars, titleVars, osVars,
                   enumVars, cbVars, ghostVars>>

\* ------------------------------------------------------------ Ctrl+C

\* Positions inside the callback EnumWindows calls through ctypes.
InCallback ==
    pc \in {"cb_visible", "cb_len", "cb_copy", "cb_strip", "gpn_entry",
            "gpn_opened", "gpn_finally", "cb_append", "cb_ret"}

\* Ctrl+C while Python code of main's own call chain runs (or while it
\* sleeps): KeyboardInterrupt unwinds to main's except clause.
InterruptMain ==
    /\ loopState = "RUNNING"
    /\ interrupts < MaxInterrupts
    /\ ~InCallback
    /\ pc # "enum_next"
    /\ interrupts' = interrupts + 1
    /\ UNCHANGED openHandles
    /\ CaughtByMain

\* Ctrl+C while the callback runs: KeyboardInterrupt unwinds the callback's
\* frames.  Inside get_process_name's try statement the finally clause closes
\* the handle; after OpenProcess has returned and before the try statement
\* is entered nothing does.  The exception then reaches the ctypes callback
\* boundary, which reports it ("Exception ignored on calling ctypes callback
\* function") and does not propagate it; the value given to EnumWindows is
\* not set by the callback, so EnumWindows goes on or stops.
InterruptCallback ==
    /\ loopState = "RUNNING"
    /\ interrupts < MaxInterrupts
    /\ InCallback
    /\ interrupts' = interrupts + 1
    /\ openHandles' = IF pc = "gpn_finally" THEN openHandles - 1 ELSE openHandles
    /\ passInterrupted' = TRUE
    /\ ClearTitle /\ ClearCb
    /\ \E goesOn \in BOOLEAN :
           /\ pc' = IF goesOn THEN "enum_next" ELSE "enum_return"
           /\ enumIdx' = IF goesOn THEN enumIdx + 1 ELSE enumIdx
    /\ UNCHANGED <<loopState, failure, elapsed, sleeping, snapVars, apiPresent,
                   windows, passUnstable, qualCount, failCount>>

Next ==
    \/ TickStart \/ CpuBaseline \/ CpuBaselineFails \/ CpuSample
    \/ NetFirst \/ NetSecond \/ IdleQueryFails \/ IdleQueryOk
    \/ FgHwnd \/ FgLen \/ FgCopy \/ TitleChange \/ SnapBuild \/ SnapPrint
    \/ WlStart \/ EnumNext \/ CbVisible \/ CbLen \/ CbCopy \/ CbStrip
    \/ GpnNoApi \/ GpnOpenDenied \/ GpnOpen \/ GpnQueryOk \/ GpnQueryFails
    \/ GpnFinally \/ CbAppend \/ CbReturn \/ WlPrint \/ SleepBegin \/ SleepEnd
    \/ InterruptMain \/ InterruptCallback

Spec == Init /\ [][Next]_vars

\* ------------------------------------------------------------ claims
\*
\* C5 and C6 speak of a pass over a set of windows: their statements about
\* a whole pass are made for passes in which no title changed under its
\* retrieval (C10 is about those) and no Ctrl+C was raised inside the
\* callback (C7 is about those).

\* a + b on 32-bit words, modulo 2^32.
AddMod32(a, b) ==
    LET lo == a.lo + b.lo
        carry == lo \div Half
    IN  [hi |-> (a.hi + b.hi + carry) % Half, lo |-> lo % Half]

\* C1: in every tick the inter-tick sleep is the poll interval minus the
\* time the tick has already consumed, and 0 when that exceeds the interval.
C1_SleepIsRemainder ==
    pc = "sleeping" => sleeping[1] = Max(0, POLL_SECONDS - elapsed)

\* C2: both components get_net_rates returns are >= 0, also when a counter
\* of the second reading is smaller than in the first.
C2_NetRatesNonNegative ==
    rates # <<>> => rates[1].up >= 0 /\ rates[1].down >= 0

\* C3: when the last-input query succeeds, get_idle_seconds returns
\* ((now - last) mod 2^32) / 1000: the masked difference d is a 32-bit word
\* with last + d = now modulo 2^32, the result is d / 1000 and is >= 0;
\* last = 1000, now = 1500 gives 0.5; last = 0xFFFFFFF0, now = 0x10 gives 0.032.
C3_IdleIsModularDifference ==
    (idle # <<>> /\ lii # <<>>) =>
        /\ tick_now # <<>> /\ elapsed_ms # <<>>
        /\ elapsed_ms[1].hi \in 0..(Half - 1)
        /\ elapsed_ms[1].lo \in 0..(Half - 1)
        /\ AddMod32(lii[1], elapsed_ms[1]) = tick_now[1]
        /\ idle[1].sec >= 0
        /\ idle[1].ms \in 0..999
        /\ (elapsed_ms[1].hi < Half \div 2 =>
               idle[1].sec * 1000 + idle[1].ms = elapsed_ms[1].hi * Half + elapsed_ms[1].lo)
        /\ (lii[1] = [hi |-> 0, lo |-> 1000] /\ tick_now[1] = [hi |-> 0, lo |-> 1500]
               => idle[1] = [sec |-> 0, ms |-> 500])
        /\ (lii[1] = [hi |-> 65535, lo |-> 65520] /\ tick_now[1] = [hi |-> 0, lo |-> 16]
               => idle[1] = [sec |-> 0, ms |-> 32])

\* The tick counter has wrapped since the last input: 0xFFFFFFF0 then 0x10.
C3_Witness ==
    /\ idle = <<[sec |-> 0, ms |-> 32]>>
    /\ lii = <<[hi |-> 65535, lo |-> 65520]>>
    /\ tick_now = <<[hi |-> 0, lo |-> 16]>>

\* C4: a probe failure never moves the loop out of RUNNING (only Ctrl+C
\* ends it): the tick still renders and the next tick is still executed.
C4_ProbeFailureKeepsLoopRunning ==
    failure # <<>> => loopState = "RUNNING" \/ (loopState = "STOPPED" /\ interrupts > 0)

\* C5: list_visible_windows returns exactly one record for each window that
\* is visible and has a non-blank title, and none for any other window (for
\* windows whose state holds still while they are enumerated); every record
\* has a non-blank title.
C5_ExactlyTheVisibleTitledWindows ==
    /\ \A i \in 1..Len(windows) : windows[i].title # <<>> /\ NonBlank(windows[i].title)
    /\ \A i, j \in 1..Len(windows) : windows[i].hwnd = windows[j].hwnd => i = j
    /\ (pc = "cb_ret" /\ ~titleChanged) =>
           ((\E i \in 1..Len(windows) : windows[i].hwnd = hwnd) <=> Qualifies)
    /\ (pc = "enum_return" /\ ~passInterrupted /\ ~passUnstable) =>
           /\ enumIdx = NumWindows
           /\ Len(windows) = qualCount

\* A whole pass in which some windows qualified and some were filtered out.
C5_Witness ==
    /\ pc = "enum_return" /\ ~passInterrupted /\ ~passUnstable
    /\ enumIdx = NumWindows
    /\ qualCount >= 1 /\ qualCount < NumWindows
    /\ Len(windows) = qualCount

\* C6: a failed process-name resolution (resolver absent, process not
\* opened, query failed) only makes that window's process_name empty: the
\* window still gets its record, the number of records does not depend on
\* which resolutions fail, and with three qualifying windows and one failed
\* resolution there are 3 records, exactly one with an empty process_name.
C6_ResolutionFailureOnlyBlanksTheName ==
    /\ (pc = "cb_ret" /\ Qualifies /\ ~titleChanged) =>
           /\ resolution \in {"ok", "absent", "denied", "queryfail"}
           /\ windows # <<>>
           /\ windows[Len(windows)] =
                  [hwnd |-> hwnd, title |-> osTitle, pid |-> pid,
                   pname |-> IF resolution = "ok"
                             THEN LastComponent(ImagePath(pid)) ELSE <<>>]
           /\ (resolution = "ok" <=> windows[Len(windows)].pname # <<>>)
    /\ (pc = "enum_return" /\ ~passInterrupted /\ ~passUnstable) =>
           /\ Len(windows) = qualCount
           /\ Cardinality({i \in 1..Len(windows) : windows[i].pname = <<>>}) = failCount

\* Three qualifying windows, resolution failed for exactly one of them.
C6_Witness ==
    /\ pc = "enum_return" /\ ~passInterrupted /\ ~passUnstable
    /\ qualCount = 3 /\ failCount = 1
    /\ Len(windows) = 3
    /\ Cardinality({i \in 1..Len(windows) : windows[i].pname = <<>>}) = 1

\* C7: a Ctrl+C arriving at any point of a tick moves the loop to STOPPED
\* (and nothing runs after it).
C7_InterruptStopsTheLoop ==
    interrupts > 0 => loopState = "STOPPED"

\* C8: when the last-input query fails get_idle_seconds returns -1 without
\* reading the tick counter, and the snapshot holds get_idle_seconds' value
\* unchanged: idle_seconds is -1 or a duration >= 0, and a failed query
\* never shows as 0.
C8_FailedQueryIsMinusOne ==
    /\ (idle # <<>> /\ lii = <<>>) =>
           /\ idle[1] = [sec |-> 0 - 1, ms |-> 0]
           /\ tick_now = <<>>
    /\ snapshot # <<>> =>
           /\ snapshot[1].idle_seconds = idle[1]
           /\ (lii = <<>> => snapshot[1].idle_seconds = [sec |-> 0 - 1, ms |-> 0])
           /\ (lii # <<>> => snapshot[1].idle_seconds.sec >= 0)

\* A snapshot built in a tick whose last-input query failed.
C8_Witness ==
    /\ snapshot # <<>>
    /\ lii = <<>>
    /\ snapshot[1].idle_seconds = [sec |-> 0 - 1, ms |-> 0]

\* C9: outside get_process_name (after any sequence of ticks, and when the
\* loop has reached STOPPED) no process handle is open.
C9_NoHandleOutlivesItsResolution ==
    pc \notin {"gpn_opened", "gpn_finally"} => openHandles = 0

\* C10: the title get_foreground_title and get_window_title return is at
\* most as long as the queried length and is a prefix of the title the
\* window has at the time of the copy, whatever the owner did to the title
\* in between; get_foreground_title returns "" without a foreground window
\* and for a queried length <= 0.
C10_TitleIsPrefixOfCurrentTitle ==
    /\ pc \in {"snap_build", "cb_strip"} =>
           /\ Len(title) <= length
           /\ Len(title) <= Len(osTitle)
           /\ title = SubSeq(osTitle, 1, Len(title))
    /\ (pc = "snap_build" /\ (hwnd = 0 \/ length <= 0)) => title = <<>>

\* The title grew after the length query: the copy is cut to the old length.
C10_Witness ==
    /\ pc \in {"snap_build", "cb_strip"}
    /\ titleChanged
    /\ Len(osTitle) > length
    /\ Len(title) = length /\ length > 0

=============================================================================
